---- MODULE Spec2Model ----
(***************************************************************************)
(* Model of backend/server.py: the CSV ingestion pipeline                  *)
(* (clean_dataframe, standardize_schema, store_processed_data,             *)
(* upload_file) and the analytics / clear-data handlers, over the two      *)
(* MongoDB collections ecommerce_data and processing_logs.                 *)
(*                                                                         *)
(* Text (file names, column names) is a sequence of one-character          *)
(* strings, so that str.lower, str.replace and str.endswith are computed.  *)
(* A cell of a DataFrame is a pair <<kind, n>>:                            *)
(*   <<"null", 0>>  NaN / NaT / None (what isnull() reports)               *)
(*   <<"num",  n>>  a number                                               *)
(*   <<"str",  k>>  text that is neither a number nor a date               *)
(*   <<"date", d>>  text that spells a date                                *)
(*   <<"ts",   d>>  a pandas Timestamp                                     *)
(*   <<"iso",  d>>  the ISO string of a Timestamp                          *)
(*                                                                         *)
(* Every await on the store that writes is a step of its own; the four     *)
(* aggregations of one overview only read and are one step.  Where         *)
(* store_fails holds, the writes (insert_many, insert_one, delete_many)    *)
(* may raise; insert_many of an empty list always raises (pymongo:         *)
(* "documents must be a non-empty list").  A failed insert_one or          *)
(* delete_many changes nothing, a failed insert_many leaves the documents  *)
(* that precede the failing one.  Reads are taken to succeed.              *)
(* uuids are successive integers; timestamps and processing_time are left  *)
(* out.                                                                    *)
(***************************************************************************)
EXTENDS Integers, Sequences, FiniteSets, TLC

VARIABLES
    content,          \* the bytes the client uploads (under any file name)
    ecommerce_data,   \* db.ecommerce_data: sequence of stored documents
    processing_logs,  \* db.processing_logs: sequence of outcome documents
    req,              \* per client: the request in progress and its locals
    resp,             \* per client: the last response returned
    hist,             \* per client: observations of the current/last upload
    nextId,           \* source of fresh document ids (uuid4)
    uploads,          \* number of accepted uploads started so far
    store_fails,      \* whether the store may fail a write in this behaviour
    overlap,          \* a clear and an upload have been in progress together
    cl_in, cl_out,    \* clean_dataframe applied to a table
    sc_in, sc_out     \* standardize_schema / to_dict applied to a table

vars == <<content, ecommerce_data, processing_logs, req, resp, hist, nextId,
          uploads, store_fails, overlap, cl_in, cl_out, sc_in, sc_out>>

envVars == <<store_fails, overlap>>
mainVars == <<content, ecommerce_data, processing_logs, req, resp, hist, nextId, uploads,
              envVars>>
cleanVars == <<cl_in, cl_out>>
schemaVars == <<sc_in, sc_out>>

----------------------------------------------------------------------------
(* Bounds *)

MaxRows == 1
MaxUploads == 2
MaxCleanRows == 3
MaxSchemaCols == 2
MaxSchemaRows == 1
MaxDocs == 32

----------------------------------------------------------------------------
(* Generic helpers *)

Range(s) == {s[i] : i \in DOMAIN s}

In(x, s) == \E i \in DOMAIN s : s[i] = x

Count(s, x) == Cardinality({i \in DOMAIN s : s[i] = x})

\* The subsequence of s at the indices that satisfy T.
SelectIdx(s, T(_)) ==
    LET F[i \in 0..Len(s)] ==
            IF i = 0 THEN <<>>
            ELSE IF T(i) THEN Append(F[i - 1], s[i]) ELSE F[i - 1]
    IN F[Len(s)]

SeqsUpTo(S, n) == UNION {[1..k -> S] : k \in 0..n}

----------------------------------------------------------------------------
(* Text *)

Uppers == <<"A", "B", "C", "D", "E", "F", "G", "H", "I", "J", "K", "L", "M",
            "N", "O", "P", "Q", "R", "S", "T", "U", "V", "W", "X", "Y", "Z">>
Lowers == <<"a", "b", "c", "d", "e", "f", "g", "h", "i", "j", "k", "l", "m",
            "n", "o", "p", "q", "r", "s", "t", "u", "v", "w", "x", "y", "z">>

LowerChar(c) ==
    IF In(c, Uppers) THEN Lowers[CHOOSE i \in DOMAIN Uppers : Uppers[i] = c] ELSE c

\* str.lower()
StrLower(s) == [i \in DOMAIN s |-> LowerChar(s[i])]

\* str.replace(ch, '')
StrRemove(s, ch) == SelectSeq(s, LAMBDA c : c # ch)

\* An endswith that ignores case: s.lower().endswith(suffix)
EndsWith_ignore_case(s, suffix) ==
    /\ Len(s) >= Len(suffix)
    /\ SubSeq(StrLower(s), Len(s) - Len(suffix) + 1, Len(s)) = suffix

\* str.endswith(suffix)
EndsWith(s, suffix) ==
    /\ Len(s) >= Len(suffix)
    /\ SubSeq(s, Len(s) - Len(suffix) + 1, Len(s)) = suffix

order_id == <<"o", "r", "d", "e", "r", "_", "i", "d">>
product_id == <<"p", "r", "o", "d", "u", "c", "t", "_", "i", "d">>
product_name == <<"p", "r", "o", "d", "u", "c", "t", "_", "n", "a", "m", "e">>
quantity == <<"q", "u", "a", "n", "t", "i", "t", "y">>
unit_price == <<"u", "n", "i", "t", "_", "p", "r", "i", "c", "e">>
customer_id == <<"c", "u", "s", "t", "o", "m", "e", "r", "_", "i", "d">>
order_date == <<"o", "r", "d", "e", "r", "_", "d", "a", "t", "e">>
country == <<"c", "o", "u", "n", "t", "r", "y">>
total_price == <<"t", "o", "t", "a", "l", "_", "p", "r", "i", "c", "e">>

\* The synonym table: pairs <<key, canonical name>>.
column_mappings ==
    { <<<<"i", "n", "v", "o", "i", "c", "e", "n", "o">>, order_id>>,
      <<<<"i", "n", "v", "o", "i", "c", "e">>, order_id>>,
      <<<<"o", "r", "d", "e", "r", "i", "d">>, order_id>>,
      <<<<"s", "t", "o", "c", "k", "c", "o", "d", "e">>, product_id>>,
      <<<<"p", "r", "o", "d", "u", "c", "t", "i", "d">>, product_id>>,
      <<<<"s", "k", "u">>, product_id>>,
      <<<<"d", "e", "s", "c", "r", "i", "p", "t", "i", "o", "n">>, product_name>>,
      <<<<"p", "r", "o", "d", "u", "c", "t", "n", "a", "m", "e">>, product_name>>,
      <<<<"p", "r", "o", "d", "u", "c", "t">>, product_name>>,
      <<<<"q", "u", "a", "n", "t", "i", "t", "y">>, quantity>>,
      <<<<"q", "t", "y">>, quantity>>,
      <<<<"u", "n", "i", "t", "p", "r", "i", "c", "e">>, unit_price>>,
      <<<<"p", "r", "i", "c", "e">>, unit_price>>,
      <<<<"c", "u", "s", "t", "o", "m", "e", "r", "i", "d">>, customer_id>>,
      <<<<"c", "u", "s", "t", "o", "m", "e", "r">>, customer_id>>,
      <<<<"i", "n", "v", "o", "i", "c", "e", "d", "a", "t", "e">>, order_date>>,
      <<<<"d", "a", "t", "e">>, order_date>>,
      <<<<"o", "r", "d", "e", "r", "d", "a", "t", "e">>, order_date>>,
      <<<<"c", "o", "u", "n", "t", "r", "y">>, country>> }

MappingKeys == {m[1] : m \in column_mappings}

required_columns == <<order_id, product_id, quantity, unit_price>>

----------------------------------------------------------------------------
(* Cells and tables *)

Null == <<"null", 0>>
Num(n) == <<"num", n>>
Text(k) == <<"str", k>>
DateText(d) == <<"date", d>>
Timestamp(d) == <<"ts", d>>
IsoString(d) == <<"iso", d>>

\* isnull() / notna() of one cell
isnull(c) == c[1] = "null"

\* pd.to_numeric(errors='coerce') of one cell
to_numeric(c) == IF c[1] = "num" THEN c ELSE Null

\* pd.to_datetime(errors='coerce') of one cell: a number is an epoch offset,
\* date text is parsed, anything else becomes NaT
to_datetime(c) ==
    IF c[1] \in {"num", "date", "ts"} THEN Timestamp(c[2]) ELSE Null

\* quantity * unit_price of one row; NaN propagates
Multiply(a, b) == IF isnull(a) \/ isnull(b) THEN Null ELSE Num(a[2] * b[2])

\* A DataFrame: column labels and rows, every row as wide as the labels.
DataFrame(columns, rows) == [columns |-> columns, rows |-> rows]

\* df[name] := values, for every column labelled name; a new label is appended
SetColumn(df, name, values) ==
    IF In(name, df.columns)
    THEN DataFrame(df.columns,
                   [r \in DOMAIN df.rows |->
                       [i \in DOMAIN df.columns |->
                           IF df.columns[i] = name THEN values[r] ELSE df.rows[r][i]]])
    ELSE DataFrame(Append(df.columns, name),
                   [r \in DOMAIN df.rows |-> Append(df.rows[r], values[r])])

\* df[name] when exactly one column carries the label
Column(df, name) ==
    LET i == CHOOSE j \in DOMAIN df.columns : df.columns[j] = name
    IN [r \in DOMAIN df.rows |-> df.rows[r][i]]

----------------------------------------------------------------------------
(* Diagnostics: the f-strings of the source, kept as text plus arguments *)

Diagnostic(msg, n, cols) == [msg |-> msg, n |-> n, cols |-> cols]

DuplicatesMsg(n) == Diagnostic("Removed N duplicate records", n, <<>>)
MissingValuesMsg(n) == Diagnostic("Removed N records with missing values", n, <<>>)
MissingColumnsMsg(cols) == Diagnostic("Missing required columns", 0, cols)
ConversionMsg == Diagnostic("Error converting data types", 0, <<>>)

----------------------------------------------------------------------------
(* clean_dataframe *)

\* DataFrame.drop_duplicates(keep=False): a mutation of drop_duplicates
drop_duplicates_keep_none(df) ==
    DataFrame(df.columns,
              SelectIdx(df.rows, LAMBDA i :
                  \A j \in DOMAIN df.rows : j # i => df.rows[j] # df.rows[i]))

\* DataFrame.drop_duplicates(subset=[first column]): a mutation of
\* drop_duplicates that compares the first cell only
drop_duplicates_first_column(df) ==
    DataFrame(df.columns,
              SelectIdx(df.rows, LAMBDA i :
                  \A j \in 1..(i - 1) : df.rows[j][1] # df.rows[i][1]))

\* DataFrame.drop_duplicates(): the first of each group of equal rows stays
drop_duplicates(df) ==
    DataFrame(df.columns,
              SelectIdx(df.rows, LAMBDA i :
                  \A j \in 1..(i - 1) : df.rows[j] # df.rows[i]))

\* df.isnull().sum().sum(): the number of null cells
NullCount(df) ==
    Cardinality({<<r, i>> \in (DOMAIN df.rows) \X (DOMAIN df.columns) :
                    isnull(df.rows[r][i])})

\* DataFrame.dropna(): rows without any null cell
dropna(df) ==
    DataFrame(df.columns,
              SelectSeq(df.rows, LAMBDA row : \A i \in DOMAIN row : ~isnull(row[i])))

clean_dataframe(df) ==
    LET original_count == Len(df.rows)
        df1 == drop_duplicates(df)
        duplicates_removed == original_count - Len(df1.rows)
        errors1 == IF duplicates_removed > 0
                   THEN <<DuplicatesMsg(duplicates_removed)>>
                   ELSE <<>>
        missing_before == NullCount(df1)
        df2 == dropna(df1)
        missing_removed == missing_before - NullCount(df2)
        errors2 == IF missing_removed > 0
                   THEN Append(errors1, MissingValuesMsg(Len(df2.rows)))
                   ELSE errors1
    IN [df |-> df2, errors |-> errors2]

----------------------------------------------------------------------------
(* standardize_schema *)

\* df.columns.str.lower().str.replace(' ', '').str.replace('_', '') of one label
NormalizeName(s) == StrRemove(StrRemove(StrLower(s), " "), "_")

\* df.rename(columns=column_mappings) of one label
MapName(s) ==
    IF s \in MappingKeys
    THEN (CHOOSE m \in column_mappings : m[1] = s)[2]
    ELSE s

\* A rename that looks the raw label up, skipping the normalisation
StandardizeColumns_raw_lookup(columns) ==
    [i \in DOMAIN columns |-> MapName(columns[i])]

\* The labels after normalisation and renaming
StandardizeColumns(columns) ==
    [i \in DOMAIN columns |-> MapName(NormalizeName(columns[i]))]

\* [col for col in required_columns if col not in df.columns]
missing_columns(columns) ==
    SelectSeq(required_columns, LAMBDA col : ~In(col, columns))

\* df[name] = pd.to_numeric(df[name], errors='coerce')
ConvertNumeric(df, name) ==
    SetColumn(df, name, [r \in DOMAIN df.rows |-> to_numeric(Column(df, name)[r])])

\* df[name] = pd.to_datetime(df[name], errors='coerce')
ConvertDatetime(df, name) ==
    SetColumn(df, name, [r \in DOMAIN df.rows |-> to_datetime(Column(df, name)[r])])

\* if 'total_price' not in df.columns: df['total_price'] = quantity * unit_price
AddTotalPrice(df) ==
    IF ~In(total_price, df.columns)
    THEN SetColumn(df, total_price,
                   [r \in DOMAIN df.rows |->
                       Multiply(Column(df, quantity)[r], Column(df, unit_price)[r])])
    ELSE df

\* df[name] is a DataFrame, not a Series, when the label occurs twice:
\* pd.to_numeric / pd.to_datetime then raise, and the except clause records it
Ambiguous(df, name) == Count(df.columns, name) > 1

standardize_schema(df) ==
    LET df0 == DataFrame(StandardizeColumns(df.columns), df.rows)
        missing == missing_columns(df0.columns)
        df1 == ConvertNumeric(df0, quantity)
        df2 == ConvertNumeric(df1, unit_price)
        df3 == AddTotalPrice(df2)
        df4 == IF In(order_date, df3.columns)
               THEN ConvertDatetime(df3, order_date)
               ELSE df3
    IN  IF missing # <<>>
        THEN [df |-> df0, errors |-> <<MissingColumnsMsg(missing)>>]
        ELSE IF Ambiguous(df0, quantity)
        THEN [df |-> df0, errors |-> <<ConversionMsg>>]
        ELSE IF Ambiguous(df1, unit_price)
        THEN [df |-> df1, errors |-> <<ConversionMsg>>]
        ELSE IF Ambiguous(df3, order_date)
        THEN [df |-> df3, errors |-> <<ConversionMsg>>]
        ELSE [df |-> df4, errors |-> <<>>]

----------------------------------------------------------------------------
(* store_processed_data: the documents built from the DataFrame *)

\* df.to_dict('records'): one dict per row; of equal labels the last one wins
to_dict(df) ==
    [r \in DOMAIN df.rows |->
        [name \in Range(df.columns) |->
            LET last == CHOOSE i \in DOMAIN df.columns :
                            /\ df.columns[i] = name
                            /\ \A j \in DOMAIN df.columns :
                                   df.columns[j] = name => j <= i
            IN df.rows[r][last]]]

\* if 'order_date' in record and pd.notna(...) and hasattr(..., 'isoformat')
IsoDate(record) ==
    IF order_date \in DOMAIN record /\ record[order_date][1] = "ts"
    THEN [record EXCEPT ![order_date] = IsoString(record[order_date][2])]
    ELSE record

\* The documents handed to insert_many; firstId stands for the fresh uuids
Documents(df, filename, firstId) ==
    LET records == to_dict(df)
    IN [r \in DOMAIN records |->
           [_id |-> firstId + r - 1,
            source_file |-> filename,
            fields |-> IsoDate(records[r])]]

----------------------------------------------------------------------------
(* The uploads a client may submit *)

data_csv == <<"d", "a", "t", "a", ".", "c", "s", "v">>
test_txt == <<"t", "e", "s", "t", ".", "t", "x", "t">>
data_CSV == <<"d", "a", "t", "a", ".", "C", "S", "V">>
csv_suffix == <<".", "c", "s", "v">>

Filenames == {data_csv, test_txt, data_CSV}

Invoice == <<"I", "n", "v", "o", "i", "c", "e">>
StockCode == <<"S", "t", "o", "c", "k", "C", "o", "d", "e">>
Quantity == <<"Q", "u", "a", "n", "t", "i", "t", "y">>
UnitPrice == <<"U", "n", "i", "t", "P", "r", "i", "c", "e">>

\* What a cell of an uploaded table may hold: an identifier that is present
\* or missing, an amount that is a number or non-numeric text, a supplied total.
IdCells == {Num(2), Null}
AmountCells == {Num(2), Text(0)}
TotalCells == {Num(5)}

Col(name, cells) == [name |-> name, cells |-> cells]

\* Headers of the uploaded tables: a full one (by synonyms), one that lacks
\* product_id and unit_price, and a canonical one that supplies total_price.
Headers ==
    { <<Col(Invoice, IdCells), Col(StockCode, {Num(2)}),
        Col(Quantity, AmountCells), Col(UnitPrice, AmountCells)>>,
      <<Col(Invoice, IdCells), Col(Quantity, AmountCells)>>,
      <<Col(order_id, {Num(2)}), Col(product_id, {Num(2)}),
        Col(quantity, AmountCells), Col(unit_price, AmountCells),
        Col(total_price, TotalCells)>> }

RowsOf(h) ==
    {row \in [DOMAIN h -> UNION {h[i].cells : i \in DOMAIN h}] :
        \A i \in DOMAIN h : row[i] \in h[i].cells}

TablesOver(headers, maxRows) ==
    UNION { { DataFrame([i \in DOMAIN h |-> h[i].name], rows) :
                rows \in SeqsUpTo(RowsOf(h), maxRows) }
            : h \in headers }

\* The content of a file: bytes that pd.read_csv parses into a table, or
\* bytes on which decoding / parsing raises.
Parsed(df) == [parses |-> TRUE, df |-> df]
Malformed == [parses |-> FALSE, df |-> DataFrame(<<>>, <<>>)]

Contents == {Parsed(df) : df \in TablesOver(Headers, MaxRows)} \cup {Malformed}

----------------------------------------------------------------------------
(* Requests, responses, outcome records *)

\* The clients of the service, and the one that issues its requests one
\* after the other
Clients == {"c1", "c2"}
Sequential == {"c1"}

\* ProcessingLog(filename=..., status=...); id, timestamp and processing_time
\* carry no behaviour and are left out
ProcessingLog(filename, status) ==
    [filename |-> filename, status |-> status, records_processed |-> 0,
     records_failed |-> 0, errors |-> <<>>]

\* str(e) of the exceptions the handler catches
ParseError == Diagnostic("read_csv failed", 0, <<>>)
StoreError == Diagnostic("500: Error storing data", 0, <<>>)
LogWriteError == Diagnostic("insert_one failed", 0, <<>>)

IdleReq ==
    [pc |-> "idle", log_entry |-> ProcessingLog(<<>>, "none"), records |-> <<>>,
     original_count |-> 0, all_errors |-> <<>>, total_records |-> 0]

\* A response, tagged with the request it answers
Response(op, filename, status, body) ==
    [request |-> [op |-> op, filename |-> filename], status |-> status, body |-> body]
NoResponse == Response("none", <<>>, 0, [kind |-> "none"])

\* What the upload in progress (or just answered) did, kept for the properties: the cause of its failure, the
\* number of times log_entry.status was assigned after construction, the
\* insert_many calls made, the insert_one calls made and the documents they
\* persisted, and the number of rows it stored.
NoHist ==
    [accepted |-> FALSE, done |-> FALSE, failure |-> "none", transitions |-> 0,
     rows_calls |-> 0, log_calls |-> 0, written |-> <<>>, stored |-> 0]

\* An except clause that records the message but leaves the status alone
FailLog_keeps_status(log_entry, e) == [log_entry EXCEPT !.errors = <<e>>]

\* The except clause of upload_file (lines 227-232): the outcome becomes
\* 'failed' with the exception text as its only diagnostic
FailLog(log_entry, e) == [log_entry EXCEPT !.status = "failed", !.errors = <<e>>]

\* An update that sets the counts but forgets the status
CompleteLog_keeps_status(log_entry, records_stored, original_count, all_errors) ==
    [log_entry EXCEPT !.records_processed = records_stored,
                      !.records_failed = original_count - records_stored,
                      !.errors = all_errors]

\* The try block after insert_many returned (lines 208-214)
CompleteLog(log_entry, records_stored, original_count, all_errors) ==
    [log_entry EXCEPT !.status = "completed",
                      !.records_processed = records_stored,
                      !.records_failed = original_count - records_stored,
                      !.errors = all_errors]

----------------------------------------------------------------------------
(* POST /api/upload *)

\* Lines 179-180: the name does not end in '.csv'; nothing else happens
UploadRejected(c, filename) ==
    /\ req[c].pc = "idle"
    /\ ~EndsWith(filename, csv_suffix)
    /\ resp' = [resp EXCEPT ![c] =
                   Response("upload", filename, 400,
                            [kind |-> "error", detail |-> "Only CSV files are supported"])]
    /\ hist' = [hist EXCEPT ![c] = NoHist]
    /\ UNCHANGED <<content, ecommerce_data, processing_logs, req, nextId, uploads>>

\* Lines 182-203 and 152-163: the outcome is created, the file read and parsed,
\* cleaned, standardized, and the documents are built; or parsing raises and
\* the except clause (227-232) takes over
UploadRead(c, filename) ==
    /\ req[c].pc = "idle"
    /\ EndsWith(filename, csv_suffix)
    /\ uploads < MaxUploads
    /\ uploads' = uploads + 1
    /\ resp' = [resp EXCEPT ![c] = NoResponse]
    /\ LET log_entry == ProcessingLog(filename, "processing")
       IN IF ~content.parses
          THEN /\ req' = [req EXCEPT ![c] =
                             [IdleReq EXCEPT !.pc = "store_failed_log",
                                             !.log_entry = FailLog(log_entry, ParseError)]]
               /\ hist' = [hist EXCEPT ![c] =
                              [NoHist EXCEPT !.accepted = TRUE, !.failure = "parse",
                                             !.transitions = 1]]
               /\ UNCHANGED nextId
          ELSE LET df == content.df
                   original_count == Len(df.rows)
                   cleaned == clean_dataframe(df)
                   standardized == standardize_schema(cleaned.df)
                   all_errors == cleaned.errors \o standardized.errors
                   records == Documents(standardized.df, filename, nextId)
               IN /\ req' = [req EXCEPT ![c] =
                                [IdleReq EXCEPT !.pc = "store_rows",
                                                !.log_entry = log_entry,
                                                !.records = records,
                                                !.original_count = original_count,
                                                !.all_errors = all_errors]]
                  /\ hist' = [hist EXCEPT ![c] = [NoHist EXCEPT !.accepted = TRUE]]
                  /\ nextId' = nextId + Len(records)
    /\ UNCHANGED <<content, ecommerce_data, processing_logs>>

\* Line 166, db.ecommerce_data.insert_many(records). An empty list raises
\* TypeError before anything is sent; otherwise the store may fail, after
\* having inserted the documents that precede the failing one. A failure is
\* re-raised as HTTPException(500) (line 169) and caught at line 227.
InsertRows(c) ==
    /\ req[c].pc = "store_rows"
    /\ LET r == req[c]
           n == Len(r.records)
       IN \/ /\ n > 0
             /\ ecommerce_data' = ecommerce_data \o r.records
             /\ req' = [req EXCEPT ![c].pc = "store_log",
                                   ![c].log_entry =
                                       CompleteLog(r.log_entry, n, r.original_count,
                                                   r.all_errors)]
             /\ hist' = [hist EXCEPT ![c].transitions = @ + 1,
                                     ![c].rows_calls = @ + 1,
                                     ![c].stored = n]
          \/ \E k \in 0..n :
                /\ (store_fails /\ k < n) \/ n = 0
                /\ ecommerce_data' = ecommerce_data \o SubSeq(r.records, 1, k)
                /\ req' = [req EXCEPT ![c].pc = "store_failed_log",
                                      ![c].log_entry = FailLog(r.log_entry, StoreError)]
                /\ hist' = [hist EXCEPT ![c].transitions = @ + 1,
                                        ![c].rows_calls = @ + 1,
                                        ![c].stored = k,
                                        ![c].failure = "rows"]
    /\ UNCHANGED <<content, processing_logs, resp, nextId, uploads>>

\* Lines 217-225: the completed outcome is written and the response returned;
\* or insert_one raises and the except clause (227-232) takes over
InsertLog(c) ==
    /\ req[c].pc = "store_log"
    /\ LET r == req[c]
           records_stored == Len(r.records)
       IN \/ /\ processing_logs' = Append(processing_logs, r.log_entry)
             /\ resp' = [resp EXCEPT ![c] =
                            Response("upload", r.log_entry.filename, 200,
                                     [kind |-> "upload",
                                      message |-> "File processed successfully",
                                      records_processed |-> records_stored,
                                      records_failed |-> r.original_count - records_stored,
                                      errors |-> r.all_errors])]
             /\ req' = [req EXCEPT ![c] = IdleReq]
             /\ hist' = [hist EXCEPT ![c].log_calls = @ + 1,
                                     ![c].written = Append(@, r.log_entry),
                                     ![c].done = TRUE]
          \/ /\ store_fails
             /\ req' = [req EXCEPT ![c].pc = "store_failed_log",
                                   ![c].log_entry = FailLog(r.log_entry, LogWriteError)]
             /\ hist' = [hist EXCEPT ![c].log_calls = @ + 1,
                                     ![c].transitions = @ + 1,
                                     ![c].failure = "log"]
             /\ UNCHANGED <<processing_logs, resp>>
    /\ UNCHANGED <<content, ecommerce_data, nextId, uploads>>

\* Lines 234-236: the failed outcome is written and the error re-raised; if
\* this insert_one raises too, the exception leaves the handler unhandled
InsertFailedLog(c) ==
    /\ req[c].pc = "store_failed_log"
    /\ LET r == req[c]
       IN \/ /\ processing_logs' = Append(processing_logs, r.log_entry)
             /\ resp' = [resp EXCEPT ![c] =
                            Response("upload", r.log_entry.filename, 500,
                                     [kind |-> "error",
                                      detail |-> "Error processing file"])]
             /\ hist' = [hist EXCEPT ![c].log_calls = @ + 1,
                                     ![c].written = Append(@, r.log_entry),
                                     ![c].done = TRUE]
          \/ /\ store_fails
             /\ resp' = [resp EXCEPT ![c] =
                            Response("upload", r.log_entry.filename, 500,
                                     [kind |-> "error",
                                      detail |-> "Internal Server Error"])]
             /\ hist' = [hist EXCEPT ![c].log_calls = @ + 1,
                                     ![c].done = TRUE]
             /\ UNCHANGED processing_logs
    /\ req' = [req EXCEPT ![c] = IdleReq]
    /\ UNCHANGED <<content, ecommerce_data, nextId, uploads>>

----------------------------------------------------------------------------
(* GET /api/analytics/overview *)

\* A field that a document does not have
Missing == <<"missing", 0>>

\* "$<field>" of one document
Field(d, field) == IF field \in DOMAIN d.fields THEN d.fields[field] ELSE Missing

\* {"$sum": "$<field>"}: documents without a number in the field add nothing,
\* a NaN makes the sum NaN
SumField(docs, field) ==
    LET Sum[i \in 0..Len(docs)] ==
            IF i = 0 THEN 0
            ELSE IF Field(docs[i], field)[1] = "num"
                 THEN Sum[i - 1] + Field(docs[i], field)[2]
                 ELSE Sum[i - 1]
    IN IF \E i \in DOMAIN docs : isnull(Field(docs[i], field))
       THEN Null
       ELSE Num(Sum[Len(docs)])

\* {"$sum": "$total_price"}
SumTotalPrice(docs) == SumField(docs, total_price)

\* {"$addToSet": "$<field>"}: the distinct values of a field, where present
AddToSet(docs, field) ==
    {docs[i].fields[field] : i \in {j \in DOMAIN docs : field \in DOMAIN docs[j].fields}}

EmptyPayload ==
    [kind |-> "analytics", total_records |-> 0,
     message |-> "No data available. Please upload a CSV file first."]

\* An overview that always aggregates, without the empty-state branch
AnalyticsCount_always_aggregates(c) ==
    /\ req[c].pc = "idle"
    /\ req' = [req EXCEPT ![c].pc = "aggregate",
                          ![c].total_records = Len(ecommerce_data)]
    /\ resp' = [resp EXCEPT ![c] = NoResponse]
    /\ UNCHANGED <<content, ecommerce_data, processing_logs, nextId, uploads>>
    /\ hist' = [hist EXCEPT ![c] = NoHist]

\* Lines 243-249: count_documents({}); the empty-state payload when it is 0
AnalyticsCount(c) ==
    /\ req[c].pc = "idle"
    /\ LET total_records == Len(ecommerce_data)
       IN IF total_records = 0
          THEN /\ resp' = [resp EXCEPT ![c] = Response("analytics", <<>>, 200, EmptyPayload)]
               /\ UNCHANGED req
          ELSE /\ req' = [req EXCEPT ![c].pc = "aggregate",
                                     ![c].total_records = total_records]
               /\ resp' = [resp EXCEPT ![c] = NoResponse]
    /\ UNCHANGED <<content, ecommerce_data, processing_logs, nextId, uploads>>
    /\ hist' = [hist EXCEPT ![c] = NoHist]

\* The order BSON values sort in: null (and a missing field) before numbers,
\* NaN before every other number, numbers before strings, strings as text:
\* an ISO string 2*t + 1 follows the bare date text that is its prefix, and
\* text that starts with a letter follows every string that starts with a digit
SortRank(c) ==
    CASE c[1] \in {"missing", "null"} -> <<0, 0>>
      [] c[1] = "num" -> <<1, c[2]>>
      [] c[1] \in {"date", "day"} -> <<2, 2 * c[2]>>
      [] c[1] = "iso" -> <<2, 2 * c[2] + 1>>
      [] c[1] = "str" -> <<3, c[2]>>
      [] OTHER -> <<4, c[2]>>

BsonLeq(a, b) ==
    \/ SortRank(a)[1] < SortRank(b)[1]
    \/ SortRank(a)[1] = SortRank(b)[1] /\ SortRank(a)[2] <= SortRank(b)[2]

\* {"$min": "$<field>"} / {"$max": "$<field>"}: null and missing are skipped;
\* absent from the result (.get gives "") when no document has a value
NoValue == <<"str", 0 - 1>>
MinField(docs, field) ==
    LET vals == {Field(docs[i], field) : i \in DOMAIN docs} \ {Missing, Null}
    IN IF vals = {} THEN NoValue
       ELSE CHOOSE v \in vals : \A w \in vals : BsonLeq(v, w)
MaxField(docs, field) ==
    LET vals == {Field(docs[i], field) : i \in DOMAIN docs} \ {Missing, Null}
    IN IF vals = {} THEN NoValue
       ELSE CHOOSE v \in vals : \A w \in vals : BsonLeq(w, v)

\* {"$limit": 5} and to_list(5); {"$limit": 30} and to_list(30)
TopLimit == 5
DailyLimit == 30

\* A sort without the "$limit" stage and with to_list(None)
RECURSIVE SortLimit_no_limit(_, _, _, _)
SortLimit_no_limit(groups, field, direction, n) ==
    IF groups = {} THEN {<<>>}
    ELSE LET first == {g \in groups : \A h \in groups :
                          IF direction = 1 THEN BsonLeq(g[field], h[field])
                                           ELSE BsonLeq(h[field], g[field])}
         IN UNION { { <<g>> \o rest :
                        rest \in SortLimit_no_limit(groups \ {g}, field, direction, n) }
                    : g \in first }

\* {"$sort": {field: direction}}, {"$limit": n}: every outcome the stage may
\* produce, the order of groups with equal keys being unspecified
RECURSIVE SortLimit(_, _, _, _)
SortLimit(groups, field, direction, n) ==
    IF n = 0 \/ groups = {} THEN {<<>>}
    ELSE LET first == {g \in groups : \A h \in groups :
                          IF direction = 1 THEN BsonLeq(g[field], h[field])
                                           ELSE BsonLeq(h[field], g[field])}
         IN UNION { { <<g>> \o rest :
                        rest \in SortLimit(groups \ {g}, field, direction, n - 1) }
                    : g \in first }

\* {"product_id": "$product_id", "product_name": "$product_name"} of one
\* document: a field the document lacks is left out of the key
ProductKey(d) == [f \in {product_id, product_name} \cap DOMAIN d.fields |-> d.fields[f]]

\* The "$group" stage of top_products_pipeline (lines 270-280)
ProductGroups(docs) ==
    { LET members == SelectSeq(docs, LAMBDA d : ProductKey(d) = k)
      IN [_id |-> k,
          total_quantity |-> SumField(members, quantity),
          total_revenue |-> SumField(members, total_price),
          order_count |-> Len(members)]
      : k \in {ProductKey(docs[i]) : i \in DOMAIN docs} }

\* "_id": "$customer_id": documents without the field fall in the null group
CustomerKey(d) == IF customer_id \in DOMAIN d.fields THEN d.fields[customer_id] ELSE Null

\* The "$group" stage of top_customers_pipeline (lines 289-295)
CustomerGroups(docs) ==
    { LET members == SelectSeq(docs, LAMBDA d : CustomerKey(d) = k)
      IN [_id |-> k,
          total_spent |-> SumField(members, total_price),
          order_count |-> Len(members)]
      : k \in {CustomerKey(docs[i]) : i \in DOMAIN docs} }

\* {"$dateFromString": {"dateString": ...}}: null for null or missing, the
\* instant a date string spells, an error for anything else
DateError == <<"error", 0>>
DateFromString(c) ==
    IF c[1] \in {"missing", "null"} THEN Null
    ELSE IF c[1] \in {"iso", "date"} THEN Timestamp(c[2])
    ELSE DateError

\* {"$dateToString": {"format": "%Y-%m-%d", ...}}: the calendar day of an
\* instant (instants count half days), null for null
DateToString(c) ==
    IF c[1] = "ts" THEN <<"day", c[2] \div 2>> ELSE c

DayKey(d) == DateToString(DateFromString(Field(d, order_date)))

\* The "$group" stage of daily_revenue_pipeline (lines 304-310)
DailyGroups(docs) ==
    { LET members == SelectSeq(docs, LAMBDA d : DayKey(d) = k)
      IN [_id |-> k,
          revenue |-> SumField(members, total_price),
          orders |-> Len(members)]
      : k \in {DayKey(docs[i]) : i \in DOMAIN docs} }

\* Lines 326-335: item["_id"]["product_id"] and item["_id"]["product_name"]
\* raise KeyError for a group whose key lacks the field
TopProductsPayload(top_products) ==
    [i \in DOMAIN top_products |->
        [product_id |-> top_products[i]._id[product_id],
         product_name |-> top_products[i]._id[product_name],
         total_revenue |-> top_products[i].total_revenue,
         total_quantity |-> top_products[i].total_quantity,
         order_count |-> top_products[i].order_count]]

\* Lines 336-343
TopCustomersPayload(top_customers) ==
    [i \in DOMAIN top_customers |->
        [customer_id |-> top_customers[i]._id,
         total_spent |-> top_customers[i].total_spent,
         order_count |-> top_customers[i].order_count]]

\* Lines 344-351
DailyRevenuePayload(daily_revenue) ==
    [i \in DOMAIN daily_revenue |->
        [date |-> daily_revenue[i]._id,
         revenue |-> daily_revenue[i].revenue,
         orders |-> daily_revenue[i].orders]]

\* Lines 317-352: the payload of a non-empty collection
OverviewPayload(total_records, docs, top_products, top_customers, daily_revenue) ==
    [kind |-> "analytics",
     total_records |-> total_records,
     total_revenue |-> SumTotalPrice(docs),
     unique_customers |-> Cardinality(AddToSet(docs, customer_id)),
     unique_products |-> Cardinality(AddToSet(docs, product_id)),
     date_range |-> [start |-> MinField(docs, order_date),
                     end |-> MaxField(docs, order_date)],
     top_products |-> TopProductsPayload(top_products),
     top_customers |-> TopCustomersPayload(top_customers),
     daily_revenue |-> DailyRevenuePayload(daily_revenue)]

\* json.dumps(..., allow_nan=False) of the response: a NaN in the payload
\* raises ValueError after the handler has returned
HasNaN(payload) ==
    \/ isnull(payload.total_revenue)
    \/ \E i \in DOMAIN payload.top_products :
           \/ isnull(payload.top_products[i].total_revenue)
           \/ isnull(payload.top_products[i].total_quantity)
    \/ \E i \in DOMAIN payload.top_customers :
           isnull(payload.top_customers[i].total_spent)
    \/ \E i \in DOMAIN payload.daily_revenue :
           isnull(payload.daily_revenue[i].revenue)

AnalyticsError == [kind |-> "error", detail |-> "Error fetching analytics"]
RenderError == [kind |-> "error", detail |-> "Internal Server Error"]

\* Lines 251-355: the four aggregations over the collection and the payload.
\* The aggregations only read, and are taken in one step. $dateFromString
\* fails the daily pipeline on a stored order_date that is not a date string;
\* a listed product group without product_id or product_name raises KeyError;
\* both are answered 500 by the except clause (354-355). A NaN among the sums
\* fails the rendering of the response.
AnalyticsAggregate(c) ==
    /\ req[c].pc = "aggregate"
    /\ LET docs == ecommerce_data
       IN \E top_products \in SortLimit(ProductGroups(docs), "total_revenue", 0 - 1, TopLimit),
             top_customers \in SortLimit(CustomerGroups(docs), "total_spent", 0 - 1, TopLimit) :
             resp' = [resp EXCEPT ![c] =
                 IF \E i \in DOMAIN docs : DayKey(docs[i]) = DateError
                 THEN Response("analytics", <<>>, 500, AnalyticsError)
                 ELSE IF \E i \in DOMAIN top_products :
                             DOMAIN top_products[i]._id # {product_id, product_name}
                 THEN Response("analytics", <<>>, 500, AnalyticsError)
                 ELSE LET daily_revenue ==
                              CHOOSE l \in SortLimit(DailyGroups(docs), "_id", 1, DailyLimit) : TRUE
                          payload == OverviewPayload(req[c].total_records, docs,
                                                     top_products, top_customers,
                                                     daily_revenue)
                      IN IF HasNaN(payload)
                         THEN Response("analytics", <<>>, 500, RenderError)
                         ELSE Response("analytics", <<>>, 200, payload)]
    /\ req' = [req EXCEPT ![c] = IdleReq]
    /\ UNCHANGED <<content, ecommerce_data, processing_logs, hist, nextId, uploads>>

----------------------------------------------------------------------------
(* DELETE /api/data/clear *)

ClearError ==
    [kind |-> "error", detail |-> "Error clearing data"]

\* Line 370: delete_many({}) on ecommerce_data, or the store raises (373-374)
ClearData(c) ==
    /\ req[c].pc = "idle"
    /\ \/ /\ ecommerce_data' = <<>>
          /\ req' = [req EXCEPT ![c].pc = "clear_logs"]
          /\ resp' = [resp EXCEPT ![c] = NoResponse]
       \/ /\ store_fails
          /\ resp' = [resp EXCEPT ![c] = Response("clear", <<>>, 500, ClearError)]
          /\ UNCHANGED <<ecommerce_data, req>>
    /\ UNCHANGED <<content, processing_logs, nextId, uploads>>
    /\ hist' = [hist EXCEPT ![c] = NoHist]

\* A clear that answers without deleting the outcome records
ClearLogs_keeps_logs(c) ==
    /\ req[c].pc = "clear_logs"
    /\ resp' = [resp EXCEPT ![c] =
                   Response("clear", <<>>, 200,
                            [kind |-> "clear",
                             message |-> "All data cleared successfully"])]
    /\ req' = [req EXCEPT ![c] = IdleReq]
    /\ UNCHANGED <<content, ecommerce_data, processing_logs, hist, nextId, uploads>>

\* Lines 371-372: delete_many({}) on processing_logs and the response
ClearLogs(c) ==
    /\ req[c].pc = "clear_logs"
    /\ \/ /\ processing_logs' = <<>>
          /\ resp' = [resp EXCEPT ![c] =
                         Response("clear", <<>>, 200,
                                  [kind |-> "clear",
                                   message |-> "All data cleared successfully"])]
       \/ /\ store_fails
          /\ resp' = [resp EXCEPT ![c] = Response("clear", <<>>, 500, ClearError)]
          /\ UNCHANGED processing_logs
    /\ req' = [req EXCEPT ![c] = IdleReq]
    /\ UNCHANGED <<content, ecommerce_data, hist, nextId, uploads>>

----------------------------------------------------------------------------
(* The service: one uploaded content per behaviour, any order of requests *)

NotRun == [done |-> FALSE, df |-> DataFrame(<<>>, <<>>), errors |-> <<>>, records |-> <<>>]
NoTable == DataFrame(<<>>, <<>>)

ServiceInit(c0) ==
    /\ content = c0
    /\ ecommerce_data = <<>>
    /\ processing_logs = <<>>
    /\ req = [c \in Clients |-> IdleReq]
    /\ resp = [c \in Clients |-> NoResponse]
    /\ hist = [c \in Clients |-> NoHist]
    /\ nextId = 1
    /\ uploads = 0
    /\ overlap = FALSE

Init ==
    /\ \E c0 \in Contents : ServiceInit(c0)
    /\ store_fails = TRUE
    /\ cl_in = NoTable /\ cl_out = NotRun
    /\ sc_in = NoTable /\ sc_out = NotRun

Next ==
    \E c \in Sequential :
        \/ \E filename \in Filenames : UploadRejected(c, filename) /\ UNCHANGED <<cleanVars, schemaVars, envVars>>
        \/ \E filename \in Filenames : UploadRead(c, filename) /\ UNCHANGED <<cleanVars, schemaVars, envVars>>
        \/ InsertRows(c) /\ UNCHANGED <<cleanVars, schemaVars, envVars>>
        \/ InsertLog(c) /\ UNCHANGED <<cleanVars, schemaVars, envVars>>
        \/ InsertFailedLog(c) /\ UNCHANGED <<cleanVars, schemaVars, envVars>>
        \/ AnalyticsCount(c) /\ UNCHANGED <<cleanVars, schemaVars, envVars>>
        \/ AnalyticsAggregate(c) /\ UNCHANGED <<cleanVars, schemaVars, envVars>>
        \/ ClearData(c) /\ UNCHANGED <<cleanVars, schemaVars, envVars>>
        \/ ClearLogs(c) /\ UNCHANGED <<cleanVars, schemaVars, envVars>>

Spec == Init /\ [][Next]_vars

----------------------------------------------------------------------------
(* clean_dataframe on its own: every table of two columns *)

CleanCells == {Null, Num(2), Text(0)}

CleanHeader == <<Col(<<"a">>, CleanCells), Col(<<"b">>, CleanCells)>>

CleanTables == TablesOver({CleanHeader}, MaxCleanRows)

InitClean ==
    /\ ServiceInit(Malformed)
    /\ store_fails = TRUE
    /\ cl_in \in CleanTables /\ cl_out = NotRun
    /\ sc_in = NoTable /\ sc_out = NotRun

Clean ==
    /\ ~cl_out.done
    /\ LET result == clean_dataframe(cl_in)
       IN cl_out' = [done |-> TRUE, df |-> result.df, errors |-> result.errors,
                     records |-> <<>>]
    /\ UNCHANGED <<mainVars, cl_in, schemaVars>>

NextClean == Clean

SpecClean == InitClean /\ [][NextClean]_vars

----------------------------------------------------------------------------
(* standardize_schema and the documents built from its result, on their own *)

OrderID == <<"O", "r", "d", "e", "r", " ", "I", "D">>
SKU == <<"S", "K", "U">>
Qty == <<"Q", "t", "y">>
Unit_Price == <<"U", "n", "i", "t", " ", "P", "r", "i", "c", "e">>
Price == <<"P", "r", "i", "c", "e">>
Total_Price == <<"T", "o", "t", "a", "l", "_", "P", "r", "i", "c", "e">>
Extra_Col == <<"E", "x", "t", "r", "a", "_", "C", "o", "l">>
InvoiceDate == <<"I", "n", "v", "o", "i", "c", "e", "D", "a", "t", "e">>
Date == <<"D", "a", "t", "e">>

DateCells == {DateText(1), Text(0)}
OtherIdCells == {Num(3)}

\* Column labels as files spell them: synonyms in mixed case, with spaces and
\* underscores, canonical names, and labels the synonym table does not know
ColumnPool ==
    { Col(Invoice, {Num(2)}), Col(OrderID, OtherIdCells), Col(StockCode, {Num(2)}),
      Col(SKU, OtherIdCells), Col(Qty, AmountCells), Col(Quantity, AmountCells),
      Col(Unit_Price, AmountCells), Col(unit_price, AmountCells),
      Col(Total_Price, TotalCells), Col(Extra_Col, {Text(0)}),
      Col(InvoiceDate, DateCells) }

\* Headers of at most MaxSchemaCols distinct labels of the pool
ShortHeaders ==
    {h \in SeqsUpTo(ColumnPool, MaxSchemaCols) :
        \A i, j \in DOMAIN h : i # j => h[i] # h[j]}

\* Headers with every required field: plain, with a supplied total, and with
\* two labels that fall on the same canonical name
FullHeaders ==
    { <<Col(Invoice, {Num(2)}), Col(StockCode, {Num(2)}), Col(Quantity, AmountCells),
        Col(UnitPrice, AmountCells), Col(InvoiceDate, DateCells)>>,
      <<Col(order_id, {Num(2)}), Col(product_id, {Num(2)}), Col(quantity, AmountCells),
        Col(unit_price, AmountCells), Col(total_price, TotalCells)>>,
      <<Col(Invoice, {Num(2)}), Col(StockCode, {Num(2)}), Col(Qty, AmountCells),
        Col(Quantity, {Num(3)}), Col(Price, AmountCells)>>,
      <<Col(Invoice, {Num(2)}), Col(OrderID, OtherIdCells), Col(StockCode, {Num(2)}),
        Col(Quantity, AmountCells), Col(Price, {Num(2)}), Col(Unit_Price, {Num(3)})>>,
      <<Col(Invoice, {Num(2)}), Col(StockCode, {Num(2)}), Col(Quantity, AmountCells),
        Col(Price, {Num(2)}), Col(Date, DateCells), Col(InvoiceDate, DateCells)>> }

SchemaTables == TablesOver(ShortHeaders \cup FullHeaders, MaxSchemaRows)

InitSchema ==
    /\ ServiceInit(Malformed)
    /\ store_fails = TRUE
    /\ cl_in = NoTable /\ cl_out = NotRun
    /\ sc_in \in SchemaTables /\ sc_out = NotRun

Standardize ==
    /\ ~sc_out.done
    /\ LET result == standardize_schema(sc_in)
       IN sc_out' = [done |-> TRUE, df |-> result.df, errors |-> result.errors,
                     records |-> Documents(result.df, data_csv, 1)]
    /\ UNCHANGED <<mainVars, cleanVars, sc_in>>

NextSchema == Standardize

SpecSchema == InitSchema /\ [][NextSchema]_vars

----------------------------------------------------------------------------
(* The analytics overview on its own: collections of up to MaxDocs documents *)

\* The document of a row with every canonical field, as an upload stores it:
\* the ISO string of the order instant, total_price = quantity * unit_price
OrderLine(i, product, customer, instant, qty, price) ==
    [_id |-> i,
     source_file |-> data_csv,
     fields |-> (order_id :> Num(i)) @@ (product_id :> Num(product))
                @@ (product_name :> Text(product)) @@ (quantity :> qty)
                @@ (unit_price :> Num(price)) @@ (customer_id :> Num(customer))
                @@ (order_date :> IsoString(instant))
                @@ (total_price :> Multiply(qty, Num(price)))]

\* The document without some of its fields (a file that has no such column)
Without(doc, names) ==
    [doc EXCEPT !.fields = [f \in (DOMAIN doc.fields) \ names |-> doc.fields[f]]]

\* The document of a file that lacks unit_price: standardize_schema returned
\* before the conversions, so order_date is the text of the file and there is
\* no total_price
Unconverted(doc, date) ==
    [Without(doc, {unit_price, total_price}) EXCEPT !.fields[order_date] = date]

\* How many products, customers and days the documents of a collection fall on
Shapes ==
    { [products |-> 7, customers |-> 6, days |-> 37],
      [products |-> 6, customers |-> 7, days |-> 31],
      [products |-> 3, customers |-> 2, days |-> 3] }

\* What the first document of a collection may be
Flaws == {"none", "no_name", "no_customer", "no_date", "nan", "raw_date", "bad_date"}

\* Document i of a collection: products, customers and days in an order that
\* is not their sorted order, two instants per day, prices from 1 to 5
ShapedLine(shape, i) ==
    OrderLine(i, (i * 5) % shape.products, (i * 3) % shape.customers,
              2 * ((i * 7) % shape.days) + (i % 2), Num(1 + (i % 2)), 1 + ((i * 2) % 5))

Flawed(doc, flaw) ==
    CASE flaw = "no_name" -> Without(doc, {product_name})
      [] flaw = "no_customer" -> Without(doc, {customer_id})
      [] flaw = "no_date" -> Without(doc, {order_date})
      [] flaw = "nan" -> [doc EXCEPT !.fields[quantity] = Null,
                                     !.fields[total_price] = Null]
      [] flaw = "raw_date" -> Unconverted(doc, DateText(doc.fields[order_date][2]))
      [] flaw = "bad_date" -> Unconverted(doc, Text(0))
      [] OTHER -> doc

AnalyticsStores ==
    { [i \in 1..n |-> IF i = 1 THEN Flawed(ShapedLine(shape, i), flaw)
                               ELSE ShapedLine(shape, i)]
      : n \in 0..MaxDocs, shape \in Shapes, flaw \in Flaws }

InitAnalytics ==
    /\ content = Malformed
    /\ ecommerce_data \in AnalyticsStores
    /\ processing_logs = <<>>
    /\ req = [c \in Clients |-> IdleReq]
    /\ resp = [c \in Clients |-> NoResponse]
    /\ hist = [c \in Clients |-> NoHist]
    /\ nextId = Len(ecommerce_data) + 1
    /\ uploads = 0
    /\ store_fails = TRUE
    /\ overlap = FALSE
    /\ cl_in = NoTable /\ cl_out = NotRun
    /\ sc_in = NoTable /\ sc_out = NotRun

NextAnalytics ==
    \E c \in Sequential :
        \/ AnalyticsCount(c) /\ UNCHANGED <<cleanVars, schemaVars, envVars>>
        \/ AnalyticsAggregate(c) /\ UNCHANGED <<cleanVars, schemaVars, envVars>>

SpecAnalytics == InitAnalytics /\ [][NextAnalytics]_vars

----------------------------------------------------------------------------
(* Concurrent requests: two clients upload data.csv and clear the data, every
   store round-trip a step, with a store that may fail or one that does not *)

\* An upload of one client and a clear of another are in progress
Overlapping ==
    \E c, d \in Clients :
        /\ req[c].pc \in {"store_rows", "store_log", "store_failed_log"}
        /\ req[d].pc = "clear_logs"

\* The files the clients upload: tables with every required field whose rows
\* are kept or dropped by the cleaner, and a malformed file
ConcurrentHeader ==
    <<Col(Invoice, IdCells), Col(StockCode, {Num(2)}),
      Col(Quantity, {Num(2)}), Col(UnitPrice, {Num(2)})>>

ConcurrentContents ==
    {Parsed(df) : df \in TablesOver({ConcurrentHeader}, MaxRows)} \cup {Malformed}

InitConcurrent ==
    /\ \E c0 \in ConcurrentContents : ServiceInit(c0)
    /\ store_fails \in BOOLEAN
    /\ cl_in = NoTable /\ cl_out = NotRun
    /\ sc_in = NoTable /\ sc_out = NotRun

Observed == overlap' = (overlap \/ Overlapping') /\ UNCHANGED <<store_fails, cleanVars, schemaVars>>

NextConcurrent ==
    \E c \in Clients :
        \/ UploadRead(c, data_csv) /\ Observed
        \/ InsertRows(c) /\ Observed
        \/ InsertLog(c) /\ Observed
        \/ InsertFailedLog(c) /\ Observed
        \/ ClearData(c) /\ Observed
        \/ ClearLogs(c) /\ Observed

SpecConcurrent == InitConcurrent /\ [][NextConcurrent]_vars

----------------------------------------------------------------------------
(* Properties *)

HasNull(row) == \E i \in DOMAIN row : isnull(row[i])

\* The lower-cased label without its spaces and underscores
Squeeze(s) == SelectSeq(StrLower(s), LAMBDA ch : ch \notin {" ", "_"})

Canonical(n) == (CHOOSE m \in column_mappings : m[1] = n)[2]

\* name = prefix + ".csv"
HasCsvSuffix(name) ==
    \E k \in 0..Len(name) : name = SubSeq(name, 1, k) \o <<".", "c", "s", "v">>

\* The required fields that no column of the uploaded table maps to
MissingRequired(columns) ==
    SelectSeq(<<order_id, product_id, quantity, unit_price>>,
              LAMBDA f : \A i \in DOMAIN columns :
                  LET n == Squeeze(columns[i])
                  IN (IF n \in MappingKeys THEN Canonical(n) ELSE n) # f)

\* The step is one of client c's
StepOf(c) == resp'[c] # resp[c] \/ req'[c] # req[c]

\* C1: an accepted upload whose table lacks a required field after
\* normalization stores no record, names exactly the missing fields in a
\* diagnostic, and completes with records_processed = 0 and every original
\* row counted in records_failed.
C1_MissingColumnsStoreNothing ==
    \A c \in Clients :
        (/\ hist[c].accepted
         /\ content.parses
         /\ MissingRequired(content.df.columns) # <<>>)
        => /\ hist[c].stored = 0
           /\ hist[c].done =>
                 /\ resp[c].status = 200
                 /\ resp[c].body.records_processed = 0
                 /\ resp[c].body.records_failed = Len(content.df.rows)
                 /\ \E i \in DOMAIN resp[c].body.errors :
                        /\ resp[c].body.errors[i].msg = "Missing required columns"
                        /\ resp[c].body.errors[i].cols =
                               MissingRequired(content.df.columns)

\* C2: for an upload whose content parses into R rows, the response and every
\* persisted outcome record, completed or failed, have
\* records_processed + records_failed = R.
C2_CountsAddUp ==
    content.parses =>
        LET R == Len(content.df.rows)
        IN /\ \A c \in Clients :
                  (resp[c].request.op = "upload" /\ resp[c].status = 200)
                  => resp[c].body.records_processed + resp[c].body.records_failed = R
           /\ \A i \in DOMAIN processing_logs :
                  processing_logs[i].records_processed
                      + processing_logs[i].records_failed = R

\* C3, for uploads whose table has all four required fields (a table that
\* lacks one is C1's case): every stored record has order_id, product_id,
\* quantity and unit_price present and non-null; a row whose quantity or
\* unit_price failed numeric parsing is never stored.
C3_RequiredFieldsNonNull ==
    (content.parses /\ MissingRequired(content.df.columns) = <<>>)
    => \A i \in DOMAIN ecommerce_data :
           \A f \in {order_id, product_id, quantity, unit_price} :
               /\ f \in DOMAIN ecommerce_data[i].fields
               /\ ~isnull(ecommerce_data[i].fields[f])

\* C4: an upload whose name does not end in exactly ".csv" is answered with
\* 400 in the step that receives it and leaves both collections unchanged;
\* no document and no outcome record ever carries such a name.
C4_RejectsNonCsv ==
    [][ /\ \A c \in Clients :
               (/\ StepOf(c)
                /\ resp'[c].request.op = "upload"
                /\ ~HasCsvSuffix(resp'[c].request.filename))
               => /\ resp'[c].status = 400
                  /\ req[c].pc = "idle" /\ req'[c].pc = "idle"
                  /\ ecommerce_data' = ecommerce_data
                  /\ processing_logs' = processing_logs
        /\ \A i \in DOMAIN ecommerce_data' :
               HasCsvSuffix(ecommerce_data'[i].source_file)
        /\ \A i \in DOMAIN processing_logs' :
               HasCsvSuffix(processing_logs'[i].filename)
        /\ \A c \in Clients :
               req'[c].pc # "idle" /\ req'[c].log_entry.status # "none"
               => HasCsvSuffix(req'[c].log_entry.filename) ]_vars

\* C4 witness: a ".CSV" upload was refused while both collections hold data.
C4_Witness ==
    \E c \in Clients :
        /\ resp[c].request.op = "upload"
        /\ resp[c].request.filename = data_CSV
        /\ resp[c].status = 400
        /\ ecommerce_data # <<>>
        /\ processing_logs # <<>>

\* C5: every accepted upload writes exactly one outcome record and changes
\* the in-memory status from 'processing' to a terminal status exactly once;
\* no persisted outcome record has status 'processing'.
C5_OneOutcomeRecord ==
    /\ \A c \in Clients :
           /\ hist[c].transitions <= 1
           /\ (hist[c].accepted /\ hist[c].done)
              => Len(hist[c].written) = 1 /\ hist[c].transitions = 1
    /\ \A i \in DOMAIN processing_logs :
           processing_logs[i].status \in {"completed", "failed"}

\* C5 amended: every accepted upload persists at most one outcome record,
\* and exactly one unless a write to the log collection fails; its in-memory
\* status becomes terminal once, and is changed a second time (completed to
\* failed, followed by a second write) only when writing the completed
\* outcome fails; no persisted outcome record has status 'processing'.
C5_AtMostOneOutcomeRecord ==
    /\ \A c \in Clients :
           hist[c].accepted
           => /\ Len(hist[c].written) <= 1
              /\ hist[c].transitions <= 2
              /\ hist[c].log_calls <= 2
              /\ (hist[c].transitions = 2) <=> (hist[c].failure = "log")
              /\ hist[c].done
                 => /\ hist[c].transitions >= 1
                    /\ hist[c].log_calls = (IF hist[c].failure = "log" THEN 2 ELSE 1)
                    /\ resp[c].request.op = "upload"
                    /\ (Len(hist[c].written) = 0)
                           <=> (/\ resp[c].status = 500
                                /\ resp[c].body.detail = "Internal Server Error")
    /\ \A i \in DOMAIN processing_logs :
           processing_logs[i].status \in {"completed", "failed"}

\* C5 witness: writing the completed outcome failed, the status was changed
\* a second time and the failed outcome was persisted.
C5_Witness ==
    \E c \in Clients :
        /\ hist[c].done
        /\ hist[c].failure = "log"
        /\ hist[c].transitions = 2
        /\ Len(hist[c].written) = 1
        /\ hist[c].stored > 0

\* The outcome an upload that failed in parsing or in insert_many must leave
FailureMessage(cause) == IF cause = "parse" THEN ParseError ELSE StoreError

\* C6 as stated: when parsing or the insert of the rows fails, the upload
\* does not retry, persists a 'failed' outcome record whose diagnostics are
\* exactly the failure message, and answers 500.
C6_FailurePersisted ==
    \A c \in Clients :
        (hist[c].done /\ hist[c].failure \in {"parse", "rows"})
        => /\ hist[c].rows_calls <= 1
           /\ resp[c].status = 500
           /\ Len(hist[c].written) = 1
           /\ hist[c].written[1].status = "failed"
           /\ hist[c].written[1].errors = <<FailureMessage(hist[c].failure)>>

\* C6 amended: when parsing or the insert of the rows fails, the upload does
\* not retry, makes exactly one attempt to persist an outcome record, that
\* record being 'failed' with the failure message as its only diagnostic,
\* never persists a 'completed' one, and answers 500; the record is in the
\* log collection unless that one write fails too.
C6_FailureRecorded ==
    \A c \in Clients :
        /\ (hist[c].accepted /\ hist[c].failure \in {"parse", "rows"})
           => /\ hist[c].rows_calls = (IF hist[c].failure = "rows" THEN 1 ELSE 0)
              /\ \A i \in DOMAIN hist[c].written :
                     /\ hist[c].written[i].status = "failed"
                     /\ hist[c].written[i].errors = <<FailureMessage(hist[c].failure)>>
              /\ ~hist[c].done
                 => /\ req[c].pc = "store_failed_log"
                    /\ req[c].log_entry.status = "failed"
                    /\ req[c].log_entry.errors = <<FailureMessage(hist[c].failure)>>
                    /\ hist[c].log_calls = 0
        /\ (hist[c].done /\ hist[c].failure \in {"parse", "rows"})
           => /\ hist[c].log_calls = 1
              /\ resp[c].request.op = "upload"
              /\ resp[c].status = 500
              /\ Len(hist[c].written) <= 1
              /\ (resp[c].body.detail = "Error processing file")
                     <=> (Len(hist[c].written) = 1)

\* C6 witness: insert_many failed and the failed outcome was persisted.
C6_Witness ==
    \E c \in Clients :
        /\ hist[c].done
        /\ hist[c].failure = "rows"
        /\ req[c].pc = "idle"
        /\ Len(hist[c].written) = 1
        /\ resp[c].status = 500
        /\ content.parses /\ content.df.rows # <<>>

C8_TotalPriceIffAbsent ==
    \A i \in DOMAIN ecommerce_data :
        LET d == ecommerce_data[i].fields
        IN IF In(total_price, content.df.columns)
           THEN /\ total_price \in DOMAIN d
                /\ \E r \in DOMAIN content.df.rows :
                       d[total_price] =
                           content.df.rows[r][CHOOSE j \in DOMAIN content.df.columns :
                                                  content.df.columns[j] = total_price]
           ELSE {quantity, unit_price} \subseteq DOMAIN d
                => /\ total_price \in DOMAIN d
                   /\ d[total_price] =
                          Multiply(to_numeric(d[quantity]), to_numeric(d[unit_price]))

\* C9: the cleaner keeps exactly one copy of each distinct row, removing
\* duplicates before it filters missing values, and reports 'Removed N
\* duplicate records' iff N > 0, N being the number of rows removed as
\* duplicates of the raw table.
C9_DuplicatesRemoved ==
    cl_out.done =>
        LET rows == cl_in.rows
            N == Len(rows) - Cardinality(Range(rows))
            dups == SelectSeq(cl_out.errors,
                              LAMBDA e : e.msg = "Removed N duplicate records")
        IN /\ (N > 0) <=> (dups # <<>>)
           /\ Len(dups) <= 1
           /\ \A i \in DOMAIN dups : dups[i].n = N
           /\ \A i \in DOMAIN dups : i = 1 /\ cl_out.errors[1] = dups[1]
           /\ \A i, j \in DOMAIN cl_out.df.rows :
                  i # j => cl_out.df.rows[i] # cl_out.df.rows[j]
           /\ Range(cl_out.df.rows) = {row \in Range(rows) : ~HasNull(row)}

\* C9 witness: a table with a repeated complete row and a repeated row that
\* has a missing cell was cleaned.
C9_Witness ==
    /\ cl_out.done
    /\ \E i, j \in DOMAIN cl_in.rows :
           i < j /\ cl_in.rows[i] = cl_in.rows[j] /\ HasNull(cl_in.rows[i])
    /\ cl_out.df.rows # <<>>
    /\ \E e \in Range(cl_out.errors) : e.msg = "Removed N duplicate records"

RevenueAt(S) ==
    LET Sum[i \in 0..Len(ecommerce_data)] ==
            IF i = 0 THEN 0
            ELSE IF i \in S /\ Field(ecommerce_data[i], total_price)[1] = "num"
                 THEN Sum[i - 1] + Field(ecommerce_data[i], total_price)[2]
                 ELSE Sum[i - 1]
    IN Sum[Len(ecommerce_data)]

\* The calendar day of a stored document (instants count half days), -1 for
\* a document without a date; and the same for an entry of the daily list
DayOfDoc(d) ==
    IF Field(d, order_date)[1] \in {"iso", "date"} THEN Field(d, order_date)[2] \div 2
    ELSE 0 - 1
DayOfEntry(e) == IF e.date[1] = "day" THEN e.date[2] ELSE 0 - 1

ProductOf(d) == <<Field(d, product_id), Field(d, product_name)>>
CustomerOf(d) == IF Field(d, customer_id) = Missing THEN Null ELSE Field(d, customer_id)

\* The answer of an analytics query on a collection that is not empty
Answered(c) ==
    /\ resp[c].request.op = "analytics"
    /\ resp[c].status = 200
    /\ resp[c].body.total_records > 0

\* C11: an analytics query returns at most 5 top-product entries and at most
\* 5 top-customer entries, each in descending order of summed total_price and
\* leaving out no group with a larger sum than a listed one, and at most 30
\* daily-revenue entries in ascending date order, which are the first 30
\* distinct dates of the store with their revenue and order count.
C11_TopListsBounded ==
    \A c \in Clients :
        Answered(c) =>
            LET docs == ecommerce_data
                P == resp[c].body.top_products
                K == resp[c].body.top_customers
                D == resp[c].body.daily_revenue
                products == {ProductOf(docs[i]) : i \in DOMAIN docs}
                customers == {CustomerOf(docs[i]) : i \in DOMAIN docs}
                days == {DayOfDoc(docs[i]) : i \in DOMAIN docs}
                ofProduct(p) == {i \in DOMAIN docs : ProductOf(docs[i]) = p}
                ofCustomer(k) == {i \in DOMAIN docs : CustomerOf(docs[i]) = k}
                ofDay(d) == {i \in DOMAIN docs : DayOfDoc(docs[i]) = d}
            IN /\ Len(P) <= 5 /\ Len(K) <= 5 /\ Len(D) <= 30
               /\ Len(P) = IF Cardinality(products) < 5 THEN Cardinality(products) ELSE 5
               /\ Len(K) = IF Cardinality(customers) < 5 THEN Cardinality(customers) ELSE 5
               /\ Len(D) = IF Cardinality(days) < 30 THEN Cardinality(days) ELSE 30
               /\ \A i, j \in DOMAIN P :
                      i < j => /\ P[i].total_revenue[2] >= P[j].total_revenue[2]
                               /\ <<P[i].product_id, P[i].product_name>>
                                      # <<P[j].product_id, P[j].product_name>>
               /\ \A i \in DOMAIN P :
                      /\ <<P[i].product_id, P[i].product_name>> \in products
                      /\ P[i].total_revenue =
                             Num(RevenueAt(ofProduct(<<P[i].product_id, P[i].product_name>>)))
                      /\ \A p \in products :
                             RevenueAt(ofProduct(p)) > P[i].total_revenue[2]
                             => \E j \in DOMAIN P : <<P[j].product_id, P[j].product_name>> = p
               /\ \A i, j \in DOMAIN K :
                      i < j => /\ K[i].total_spent[2] >= K[j].total_spent[2]
                               /\ K[i].customer_id # K[j].customer_id
               /\ \A i \in DOMAIN K :
                      /\ K[i].customer_id \in customers
                      /\ K[i].total_spent = Num(RevenueAt(ofCustomer(K[i].customer_id)))
                      /\ \A k \in customers :
                             RevenueAt(ofCustomer(k)) > K[i].total_spent[2]
                             => \E j \in DOMAIN K : K[j].customer_id = k
               /\ \A i, j \in DOMAIN D : i < j => DayOfEntry(D[i]) < DayOfEntry(D[j])
               /\ \A i \in DOMAIN D :
                      /\ DayOfEntry(D[i]) \in days
                      /\ D[i].revenue = Num(RevenueAt(ofDay(DayOfEntry(D[i]))))
                      /\ D[i].orders = Cardinality(ofDay(DayOfEntry(D[i])))
                      /\ \A d \in days :
                             d < DayOfEntry(D[i]) => \E j \in DOMAIN D : DayOfEntry(D[j]) = d

\* C11 witness: a query was answered on a store with more than 5 products,
\* more than 5 customers and more than 30 days, stored in an order that is
\* not the order of their dates, with two listed products of equal revenue.
C11_Witness ==
    \E c \in Clients :
        /\ Answered(c)
        /\ Cardinality({ProductOf(ecommerce_data[i]) : i \in DOMAIN ecommerce_data}) > 5
        /\ Cardinality({CustomerOf(ecommerce_data[i]) : i \in DOMAIN ecommerce_data}) > 5
        /\ Cardinality({DayOfDoc(ecommerce_data[i]) : i \in DOMAIN ecommerce_data}) > 30
        /\ Len(resp[c].body.top_products) = 5
        /\ Len(resp[c].body.top_customers) = 5
        /\ Len(resp[c].body.daily_revenue) = 30
        /\ DayOfDoc(ecommerce_data[1]) > DayOfDoc(ecommerce_data[Len(ecommerce_data)])
        /\ \E i, j \in DOMAIN resp[c].body.top_products :
               /\ i < j
               /\ resp[c].body.top_products[i].total_revenue
                      = resp[c].body.top_products[j].total_revenue

\* C12: the rows that survive the cleaner (duplicate removal, then
\* missing-value removal) are the rows that survive the two steps taken in
\* the other order, in the same order; only the counts the two orders would
\* report can differ.
C12_StepOrderIrrelevant ==
    cl_out.done =>
        LET swapped == drop_duplicates(dropna(cl_in))
        IN /\ Range(cl_out.df.rows) = Range(swapped.rows)
           /\ cl_out.df.rows = swapped.rows
           /\ cl_out.df.columns = swapped.columns

\* C12 witness: a table was cleaned in which the two orders remove different
\* numbers of rows as duplicates (a repeated row with a missing cell) and
\* some row survives.
C12_Witness ==
    /\ cl_out.done
    /\ cl_out.df.rows # <<>>
    /\ Len(cl_in.rows) - Len(drop_duplicates(cl_in).rows)
           # Len(dropna(cl_in).rows) - Len(drop_duplicates(dropna(cl_in)).rows)
    /\ \E e \in Range(cl_out.errors) : e.msg = "Removed N duplicate records"
    /\ \E e \in Range(cl_out.errors) : e.msg = "Removed N records with missing values"

\* C13: the cleaner emits 'Removed K records with missing values' iff the
\* missing-value removal drops at least one row, and K is the number of rows
\* it drops (the distinct rows of the table that have a missing cell).
C13_MissingCountReported ==
    cl_out.done =>
        LET dropped == Cardinality({row \in Range(cl_in.rows) : HasNull(row)})
            reports == SelectSeq(cl_out.errors,
                                 LAMBDA e : e.msg = "Removed N records with missing values")
        IN /\ (dropped > 0) <=> (reports # <<>>)
           /\ Len(reports) <= 1
           /\ \A i \in DOMAIN reports : reports[i].n = dropped

\* No request is in progress
Quiescent == \A c \in Clients : req[c].pc = "idle"

\* The sum of records_processed over the persisted 'completed' outcomes
CompletedTotal ==
    LET Sum[i \in 0..Len(processing_logs)] ==
            IF i = 0 THEN 0
            ELSE IF processing_logs[i].status = "completed"
                 THEN Sum[i - 1] + processing_logs[i].records_processed
                 ELSE Sum[i - 1]
    IN Sum[Len(processing_logs)]

\* The rows of the uploads in progress that are inserted and not yet reported
InFlight ==
    LET cs == {c \in Clients : req[c].pc = "store_log"}
        Sum[S \in SUBSET cs] ==
            IF S = {} THEN 0
            ELSE LET c == CHOOSE x \in S : TRUE
                 IN Len(req[c].records) + Sum[S \ {c}]
    IN Sum[cs]

====
